---- MODULE Spec2Model ----
(***************************************************************************)
(* Exchange-rate monitor: the live rate aggregation and bank polling code  *)
(* of the repository's two programs.                                       *)
(*                                                                         *)
(*   "app"  - src/app.py, the Streamlit script: one serial loop that       *)
(*            fetches the live quote, polls the two banks when their       *)
(*            throttle has elapsed, and sleeps; a widget change reruns     *)
(*            the script from the top over the kept session state.         *)
(*   "main" - src/main.py, the matplotlib monitor: the GUI thread runs     *)
(*            update() on a timer and the radio-button callbacks, and two  *)
(*            daemon threads poll the banks.                               *)
(*                                                                         *)
(* Time is wall-clock time in whole seconds.  Optional values (Python's    *)
(* None) are sequences of length at most one.                              *)
(***************************************************************************)
EXTENDS Integers, Sequences, FiniteSets, TLC

\* ------------------------------------------------------------------ bounds
\* Live buffer capacity.  The source keeps 3600 samples (app.py:201,
\* main.py:572); the model keeps this many so that eviction happens.
Capacity == 2
\* Most samples appended between two resets of the live buffer.
MaxAppended == 4
\* time.time() when the program starts (any instant later than 30).
StartTime == 31
\* Seconds of wall-clock time explored by Spec, and by SpecPoll.
Horizon == 6
PollHorizon == 37
\* Longest time one network fetch takes, in seconds.
MaxLatency == 1
\* Rates and bank quotes are drawn from 1..MaxRate and 1..MaxQuote.
MaxRate == 1
MaxQuote == 1
\* Most bars one history fetch returns.
MaxBars == 2
\* Most reruns of the Streamlit script / radio-button callbacks in a run.
MaxSwitches == 1
\* Nearest-sample search: timestamps 1..MaxStamp, views of up to MaxView
\* samples.
MaxStamp == 4
MaxView == 3
MaxRows == 2
\* Seconds of wall-clock time explored by SpecFeed, per program.
FeedAppHorizon == 6
FeedMainHorizon == 3
ThemeAppHorizon == 60
ThemeMainHorizon == 3

\* --------------------------------------------------------------- constants
BOC_INTERVAL == 30
CMB_INTERVAL == 10
LOOP_SLEEP == 3
CACHE_TTL == 60
BOC_SLEEP_STEPS == 60
CMB_SLEEP_STEPS == 40
UPDATE_INTERVAL == 1

MaxTime == StartTime + Horizon
PollMaxTime == StartTime + PollHorizon

Sources == {"BOC", "CMB"}
Currencies == {"EUR", "USD"}
Ranges == {"48h", "1h"}
DefaultCurrency == "EUR"
DefaultRange == "48h"
Themes == {"Dark", "Light"}
DefaultTheme == "Dark"

None == << >>
Some(x) == << x >>
IsNone(o) == o = << >>
Val(o) == o[1]

Rates == 1..MaxRate
LivePrices == {None} \cup {Some(r) : r \in Rates}
QuoteValues == 1..MaxQuote
\* What a bank answers: a failure of any kind, or a row with a sell price.
BankResponses == {None} \cup {Some(v) : v \in QuoteValues}

\* --------------------------------------------------------------- variables
VARIABLES
  program,            \* which of the two programs runs
  now,                \* wall clock
  current_currency,   \* main.py self.current_currency; app.py selected_currency
  current_range,      \* main.py self.current_range;    app.py selected_range
  live_times,         \* live buffer, timestamps
  live_rates,         \* live buffer, rates
  hist_data,          \* historical series: sequence of [t, close]
  bank_rates,         \* source -> None or Some(quote)
  last_bank_update,   \* app.py session state: source -> time of last poll
  last_currency,      \* app.py session state
  hist_cache,         \* app.py st.cache_data of get_history
  pc,                 \* main.py poller thread -> position in its loop
  current,            \* main.py poller thread's local `current`
  loop_last_currency, \* main.py poller thread's local `last_currency`
  rate,               \* main.py poller thread's local `rate`
  sleep_start,        \* main.py poller thread: when its sleep loop began
  switches,           \* number of reruns / callbacks so far
  appended,           \* history: samples appended since the last reset
  fetch_issued,       \* history: a fetch was issued for the selected currency
  hist_key,           \* history: <<currency, range>> hist_data was loaded for
  last_good,          \* history: last successful quote stored per source
  last_invoke,        \* history: time of the last invocation per source
  changed_since,      \* history: currency changed since that invocation
  invocation,         \* history: the last invocation and the one before it
  tick_info,          \* history: what the last poll did
  writer,             \* history: which thread last wrote bank_rates[s]
  x_data,             \* main.py self.live_line x data
  y_data,             \* main.py self.live_line y data
  tooltip,            \* main.py self.v_line / self.tooltip
  query,              \* history: the last mouse move and what it found
  trend,              \* what the last computation of the trend published
  fetched,            \* history: the last fetch made on its own, its result
  current_theme,      \* main.py self.current_theme; app.py selected_theme
  fill_collection,    \* main.py self.fill_collection: None, drawn or removed
  ani_running         \* main.py: the animation's timer is scheduled

vars == << program, now, current_currency, current_range, live_times,
           live_rates, hist_data, bank_rates, last_bank_update, last_currency,
           hist_cache, pc, current, loop_last_currency, rate, sleep_start,
           switches, appended, fetch_issued, hist_key, last_good, last_invoke,
           changed_since, invocation, tick_info, writer, x_data, y_data,
           tooltip, query, trend, fetched, current_theme, fill_collection,
           ani_running >>

hover_vars == << x_data, y_data, tooltip, query >>
anim_vars == << fill_collection, ani_running >>
gui_vars == << current_currency, current_range, live_times, live_rates,
               hist_data, switches, appended, hist_key, trend >>
app_vars == << last_bank_update, last_currency, hist_cache >>
thread_vars == << pc, current, loop_last_currency, rate, sleep_start >>

\* ----------------------------------------------------------------- helpers
Min(a, b) == IF a <= b THEN a ELSE b

\* The last n elements of a sequence.
LastN(seq, n) == SubSeq(seq, Len(seq) - Min(n, Len(seq)) + 1, Len(seq))

\* list.pop(0)
Pop0(seq) == SubSeq(seq, 2, Len(seq))

Bar(t, c) == [t |-> t, close |-> c]
\* A live sample, with the currency its price was fetched for.
Sample(t, r, c) == [t |-> t, rate |-> r, ccy |-> c]

\* What the market data provider may return for a history request made at
\* time t: no rows, or up to MaxBars rows in ascending time, none later
\* than t.
HistoryResponses(t) ==
  UNION { { [i \in 1..n |-> Bar(t - n + i, f[i])] : f \in [1..n -> Rates] }
          : n \in 0..MaxBars }

\* time_ranges[...]['hours'] of main.py, in seconds.
HoursOf(range) == IF range = "1h" THEN 3600 ELSE 48 * 3600

\* A bank quote as the fetchers return it, with the currency it was asked for.
Quote(code, v) == [ccy |-> code, spot_sell |-> v, cash_sell |-> v]

\* BankRateFetcher.get_boc_rates / get_cmb_rates: None on any failure, else
\* the matching row's sell prices.
get_boc_rates(currency_code, response) ==
  IF IsNone(response) THEN None ELSE Some(Quote(currency_code, Val(response)))

get_cmb_rates(currency_code, response) ==
  IF IsNone(response) THEN None ELSE Some(Quote(currency_code, Val(response)))

get_rates(s, currency_code, response) ==
  IF s = "BOC" THEN get_boc_rates(currency_code, response)
               ELSE get_cmb_rates(currency_code, response)

\* Python truthiness of what the fetchers return (`if rate:`).
RateTruthy(r) == ~IsNone(r)

\* Python truthiness of the live price (`if price:`): None and 0 are false.
PriceTruthy(price) == ~IsNone(price) /\ Val(price) # 0

\* The stitched view: history followed by the live buffer, as timestamps.
all_times(hist, times) == [i \in 1..Len(hist) |-> hist[i].t] \o times
ViewTimes == all_times(hist_data, live_times)

\* The stitched view's values: history closes followed by the live rates.
all_rates(hist, rates) == [i \in 1..Len(hist) |-> hist[i].close] \o rates
ViewRates == all_rates(hist_data, live_rates)

IsSorted(seq) == \A i \in 1..(Len(seq) - 1) : seq[i] <= seq[i + 1]

\* -------------------------------------------------------------- live feed
\* Floating point values that are no numbers: NaN, and the infinity numpy
\* returns for a division by zero.  Rates are whole hundredths.
NaN == 0 - 999999
Inf == 0 - NaN + 1
IsNaN(x) == x = NaN

\* What the market data provider answers to one request: the call raises,
\* or yields nothing, a NaN or a number.
Answer(kind, v) == [kind |-> kind, v |-> v]
FeedValues == {0, 780, 785}
Closes == {0, 780, 782}

\* ticker.fast_info.last_price.
FastInfo ==
  {Answer("raise", 0), Answer("none", 0), Answer("nan", 0)}
    \cup {Answer("num", v) : v \in FeedValues}

\* ticker.history(period='1d', interval='1m'): it raises, is empty, or has
\* a last close that is a NaN or a number.
DayHistory ==
  {Answer("raise", 0), Answer("empty", 0), Answer("nan", 0)}
    \cup {Answer("num", v) : v \in FeedValues}

\* The price as the snapshot gave it: None, NaN or a number.
PriceOf(a) ==
  IF a.kind = "none" THEN None
  ELSE IF a.kind = "nan" THEN Some(NaN) ELSE Some(a.v)

\* app.py 186-195: the snapshot, or the last close of today's history when
\* the snapshot is None or NaN and that history is not empty; None when
\* either call raises.
AppLivePrice(fast, day) ==
  IF fast.kind = "raise" THEN None
  ELSE IF fast.kind \in {"none", "nan"}
       THEN IF day.kind = "raise" THEN None
            ELSE IF day.kind = "empty" THEN PriceOf(fast)
            ELSE PriceOf(day)
       ELSE PriceOf(fast)

\* main.py 445-447: a price that is None or NaN is returned as None.
NotNumber(price) == IsNone(price) \/ IsNaN(Val(price))

\* get_live_rate, main.py 431-450.
get_live_rate(fast, day) ==
  IF fast.kind = "raise" THEN None
  ELSE LET price == IF fast.kind \in {"none", "nan"}
                    THEN IF day.kind = "raise" THEN [raised |-> TRUE]
                         ELSE IF day.kind = "empty"
                              THEN [raised |-> FALSE, p |-> PriceOf(fast)]
                              ELSE [raised |-> FALSE, p |-> PriceOf(day)]
                    ELSE [raised |-> FALSE, p |-> PriceOf(fast)]
       IN IF price.raised THEN None
          ELSE IF NotNumber(price.p) THEN None ELSE price.p

\* ------------------------------------------------------------------ trend
\* A subtraction with its operands the wrong way round.
SubReversed(a, b) == IF IsNaN(a) \/ IsNaN(b) THEN NaN ELSE b - a

\* a - b in floating point.
Sub(a, b) == IF IsNaN(a) \/ IsNaN(b) THEN NaN ELSE a - b

\* (delta / start) * 100 for start # 0, in hundredths of a percent as the
\* `:.2f` formats show it.
PercentOf(delta, start) ==
  IF IsNaN(delta) \/ IsNaN(start) THEN NaN ELSE (delta * 100 * 100) \div start

\* app.py 226: the current value is the live price, else the last close, else
\* 0.
current_val(price, hist) ==
  IF PriceTruthy(price) THEN Val(price)
  ELSE IF hist # << >> THEN hist[Len(hist)].close ELSE 0

\* A baseline taken from the last close instead of the first.
start_val_last(hist, cur) ==
  IF hist # << >> THEN hist[Len(hist)].close ELSE cur

\* app.py 227: the baseline is the first close, else the current value.
start_val(hist, cur) == IF hist # << >> THEN hist[1].close ELSE cur

\* app.py 229: no division when the baseline is 0.
delta_percent(delta, start) ==
  IF start # 0 THEN PercentOf(delta, start) ELSE 0

\* A direction that counts zero as down.
DirectionStrict(delta) ==
  IF ~IsNaN(delta) /\ delta > 0 THEN "Up" ELSE "Down"

\* app.py 252-253, main.py 532-537: zero counts as up; a NaN compares false.
Direction(delta) == IF ~IsNaN(delta) /\ delta >= 0 THEN "Up" ELSE "Down"

NoTrend == [at |-> 0, took |-> FALSE, current |-> 0, delta |-> 0, pct |-> 0,
            direction |-> "none", color |-> "none"]

\* app.py 225-253: the metrics and the line colour of one loop iteration.
Metrics(current_time, price, hist) ==
  LET cur == current_val(price, hist)
      start == start_val(hist, cur)
      delta == Sub(cur, start)
  IN [at |-> current_time, took |-> PriceTruthy(price), current |-> cur,
      delta |-> delta, pct |-> delta_percent(delta, start),
      direction |-> Direction(delta), color |-> Direction(delta)]

\* main.py 594: numpy's float division, which returns inf or nan for a zero
\* divisor.
pct_change(change, start_rate) ==
  IF start_rate = 0
  THEN IF change = 0 THEN NaN ELSE IF change > 0 THEN Inf ELSE 0 - Inf
  ELSE PercentOf(change, start_rate)

\* main.py 589-604: change, percentage, symbol and colour of one update with
\* a live rate.
TitleTrend(current_time, current_rate, hist) ==
  LET change == IF hist # << >> THEN Sub(current_rate, hist[1].close) ELSE 0
      pct == IF hist # << >> THEN pct_change(change, hist[1].close) ELSE 0
  IN [at |-> current_time, took |-> TRUE, current |-> current_rate,
      delta |-> change, pct |-> pct, direction |-> Direction(change),
      color |-> Direction(change)]

\* main.py 320-326: refresh_data resets the colours with update_visuals(0, 0)
\* and leaves the title as it is.
ResetVisuals(old) == [old EXCEPT !.color = Direction(0)]

\* ------------------------------------------------------------ live buffer
\* A buffer that evicts one sample too late.
EvictTestLate(n) == n > Capacity + 1

\* app.py 197-203, main.py 567-574: append, then evict the oldest when the
\* buffer is longer than its capacity.
EvictTest(n) == n > Capacity

\* A buffer that skips a value equal to the one it holds last.
AppendLiveDistinct(buf, x) ==
  IF buf # << >> /\ buf[Len(buf)] = x THEN buf
  ELSE LET grown == Append(buf, x)
       IN IF Len(grown) > Capacity THEN Pop0(grown) ELSE grown

AppendLive(buf, x) ==
  LET grown == Append(buf, x)
  IN IF EvictTest(Len(grown)) THEN Pop0(grown) ELSE grown

\* --------------------------------------------------------- app.py: pollers
Interval(s) == IF s = "BOC" THEN BOC_INTERVAL ELSE CMB_INTERVAL

\* app.py 207, 214: the throttle test.
Due(current_time, last, s) == current_time - last[s] > Interval(s)

\* app.py 209-211, 216-218: keep the quote on a failure.
StoreApp(old, r) == IF RateTruthy(r) THEN r ELSE old

FarPast == [s \in Sources |-> 0]
NoQuotes == [s \in Sources |-> None]
NoInvoke == [at |-> 0, ok |-> FALSE]
NoInvocation == [prev_at |-> 0, prev_ok |-> FALSE, changed |-> FALSE]
NoTick == [at |-> 0, last |-> FarPast,
           invoked |-> [s \in Sources |-> FALSE],
           started |-> FarPast, peer_wait |-> FarPast, loop_wait |-> 0]

\* A throttle that is stamped only by a successful fetch.
StampOnSuccess(current_time, old, r) ==
  IF RateTruthy(r) THEN current_time ELSE old

\* app.py 211, 218: the poll time is recorded whether or not the fetch
\* succeeded.
Stamp(current_time, old, r) == current_time

\* app.py 161-168: get_history behind st.cache_data(ttl=60).  The cached
\* frame is returned while it is fresh; otherwise the provider's answer
\* (an empty frame on an exception) is returned and cached.
CacheHit(cache, key, t) ==
  ~IsNone(cache[key]) /\ t - Val(cache[key]).at < CACHE_TTL

get_history(cache, key, t, response) ==
  IF CacheHit(cache, key, t) THEN Val(cache[key]).data ELSE response

CachePut(cache, key, t, response) ==
  IF CacheHit(cache, key, t) THEN cache
  ELSE [cache EXCEPT ![key] = Some([data |-> response, at |-> t])]

Keys == Currencies \X Ranges

\* ------------------------------------------------------ app.py: live loop
\* One iteration of `while True` (app.py 182-322).  price is what the live
\* quote fetch produced, resp[s] what bank s answers if it is polled, and
\* d_live, lat[s] the seconds those fetches take.
AppTickBody(price, d_live, resp, lat) ==
  LET current_time == now
      t_live == now + d_live
      take == PriceTruthy(price)
      due == [s \in Sources |-> Due(current_time, last_bank_update, s)]
      took == [s \in Sources |-> IF due[s] THEN lat[s] ELSE 0]
      got == [s \in Sources |->
                IF due[s] THEN get_rates(s, current_currency, resp[s])
                          ELSE None]
      started == [s \in Sources |->
                    IF ~due[s] THEN 0
                    ELSE IF s = "BOC" THEN t_live ELSE t_live + took["BOC"]]
  IN /\ live_times' = IF take THEN AppendLive(live_times, t_live)
                              ELSE live_times
     /\ live_rates' = IF take THEN AppendLive(live_rates, Val(price))
                              ELSE live_rates
     /\ appended' = IF take
                    THEN Append(appended,
                                Sample(t_live, Val(price), current_currency))
                    ELSE appended
     /\ bank_rates' = [s \in Sources |->
                         IF due[s] THEN StoreApp(bank_rates[s], got[s])
                                   ELSE bank_rates[s]]
     /\ last_bank_update' = [s \in Sources |->
                               IF due[s]
                               THEN Stamp(current_time, last_bank_update[s],
                                          got[s])
                               ELSE last_bank_update[s]]
     /\ now' = t_live + took["BOC"] + took["CMB"] + LOOP_SLEEP
     /\ fetch_issued' = TRUE
     /\ last_good' = [s \in Sources |->
                        IF due[s] /\ RateTruthy(got[s]) THEN got[s]
                                                        ELSE last_good[s]]
     /\ last_invoke' = [s \in Sources |->
                          IF due[s]
                          THEN [at |-> current_time, ok |-> RateTruthy(got[s])]
                          ELSE last_invoke[s]]
     /\ invocation' = [s \in Sources |->
                         IF due[s]
                         THEN [prev_at |-> last_invoke[s].at,
                               prev_ok |-> last_invoke[s].ok,
                               changed |-> changed_since[s]]
                         ELSE invocation[s]]
     /\ changed_since' = [s \in Sources |->
                            IF due[s] THEN FALSE ELSE changed_since[s]]
     /\ tick_info' = [at |-> current_time, last |-> last_bank_update,
                      invoked |-> due, started |-> started,
                      peer_wait |-> [s \in Sources |->
                                       IF due[s] /\ s = "CMB"
                                       THEN took["BOC"] ELSE 0],
                      loop_wait |-> took["BOC"] + took["CMB"]]
     /\ writer' = [s \in Sources |->
                     IF due[s] /\ RateTruthy(got[s]) THEN "loop"
                                                     ELSE writer[s]]
     /\ trend' = Metrics(current_time, price, hist_data)
     /\ UNCHANGED << hover_vars, fetched, current_theme, program,
                     current_currency, current_range, hist_data,
                     last_currency, hist_cache, switches, hist_key,
                     thread_vars, anim_vars >>

\* What bank s answers, and how long it takes, in an iteration that starts
\* at the present state: a bank that is not polled answers nothing and takes
\* no time.
ResponsesOf(s) ==
  IF Due(now, last_bank_update, s) THEN BankResponses ELSE {None}

LatenciesOf(s) ==
  IF Due(now, last_bank_update, s) THEN 0..MaxLatency ELSE {0}

AppTickFrom(prices, limit) ==
  /\ program = "app"
  /\ \E price \in prices, d_live \in 0..MaxLatency,
        rb \in ResponsesOf("BOC"), lb \in LatenciesOf("BOC"),
        rc \in ResponsesOf("CMB"), lc \in LatenciesOf("CMB") :
       /\ PriceTruthy(price) => Len(appended) < MaxAppended
       /\ AppTickBody(price, d_live,
                      [s \in Sources |-> IF s = "BOC" THEN rb ELSE rc],
                      [s \in Sources |-> IF s = "BOC" THEN lb ELSE lc])
  /\ now' <= limit

AppTick == AppTickFrom(LivePrices, MaxTime)

\* A rerun that resets on every widget change.
NeedsResetAlways(last, c) == TRUE

\* A rerun that never resets.
NeedsResetNever(last, c) == FALSE

\* app.py 155: the session is reset when the selected currency differs from
\* the one the session was built for.
NeedsReset(last, c) == last # c

\* A widget change reruns the script from the top (app.py 83-171) with the
\* new selection c, r; a theme change reruns it with the selection as it is.
AppRerunTo(c, r, theme) ==
  LET reset == NeedsReset(last_currency, c)
      key == << c, r >>
      hit == CacheHit(hist_cache, key, now)
  IN /\ program = "app"
     /\ switches < MaxSwitches
     /\ switches' = switches + 1
     /\ current_currency' = c
     /\ current_range' = r
     /\ live_times' = IF reset THEN << >> ELSE live_times
     /\ live_rates' = IF reset THEN << >> ELSE live_rates
     /\ appended' = IF reset THEN << >> ELSE appended
     /\ bank_rates' = IF reset THEN NoQuotes ELSE bank_rates
     /\ last_bank_update' = IF reset THEN FarPast ELSE last_bank_update
     /\ last_currency' = c
     /\ \E response \in HistoryResponses(now) :
          /\ hit => response = << >>
          /\ hist_data' = get_history(hist_cache, key, now, response)
          /\ hist_cache' = CachePut(hist_cache, key, now, response)
     /\ hist_key' = key
     /\ fetch_issued' = IF reset THEN ~hit ELSE (fetch_issued \/ ~hit)
     /\ last_good' = IF reset THEN NoQuotes ELSE last_good
     /\ changed_since' = IF reset THEN [s \in Sources |-> TRUE]
                                  ELSE changed_since
     /\ writer' = IF reset THEN [s \in Sources |-> "loop"] ELSE writer
     /\ trend' = NoTrend
     /\ current_theme' = theme
     /\ UNCHANGED << hover_vars, fetched, program, now, last_invoke,
                     invocation, tick_info, thread_vars, anim_vars >>

AppRerun(c, r) == AppRerunTo(c, r, current_theme)

\* ------------------------------------------------- main.py: the GUI thread
\* main.py 403-429: the provider's rows not older than the range's hours;
\* an empty frame when the provider returns none or raises.
fetch_history(response, t, range) ==
  SelectSeq(response, LAMBDA b : b.t >= t - HoursOf(range))

\* main.py 445: the live rate is used when it is a number.
PriceValid(price) == ~IsNone(price)

\* update_visuals, main.py 541-558: a fill that exists is removed, and a new
\* one is drawn when the view has samples.  The attribute keeps the removed
\* fill when nothing is drawn, and removing a fill twice raises.
FillRaises(fill) == fill = "removed"

FillAfter(fill, view) ==
  IF FillRaises(fill) THEN fill
  ELSE IF view # << >> THEN "drawn"
  ELSE IF fill = "drawn" THEN "removed" ELSE fill

\* What the timer does after a callback raised depends on the GUI backend:
\* it is scheduled again, or it is not.
TimerAfter(raised) == IF raised THEN BOOLEAN ELSE {TRUE}

\* update(frame), main.py 562-609, and the timer's wait for the next frame.
MainTickBody(price, d_live) ==
  LET current_time == now + d_live
      take == PriceValid(price)
      raised == take /\ FillRaises(fill_collection)
  IN /\ live_times' = IF take THEN AppendLive(live_times, current_time)
                              ELSE live_times
     /\ live_rates' = IF take THEN AppendLive(live_rates, Val(price))
                              ELSE live_rates
     /\ appended' = IF take
                    THEN Append(appended,
                                Sample(current_time, Val(price),
                                       current_currency))
                    ELSE appended
     /\ x_data' = IF take THEN all_times(hist_data, live_times') ELSE x_data
     /\ y_data' = IF take THEN all_rates(hist_data, live_rates') ELSE y_data
     /\ trend' = IF raised
                  THEN [trend EXCEPT
                          !.color = TitleTrend(current_time, Val(price),
                                               hist_data).color]
                  ELSE IF take
                       THEN TitleTrend(current_time, Val(price), hist_data)
                       ELSE trend
     /\ fill_collection' =
          IF take
          THEN FillAfter(fill_collection, all_rates(hist_data, live_rates'))
          ELSE fill_collection
     /\ ani_running' \in TimerAfter(raised)
     /\ now' = current_time + UPDATE_INTERVAL
     /\ fetch_issued' = TRUE
     /\ UNCHANGED << tooltip, query, fetched, current_theme, program,
                     current_currency, current_range, hist_data, bank_rates,
                     app_vars, thread_vars, switches, hist_key, last_good,
                     last_invoke, changed_since, invocation, tick_info,
                     writer >>

\* Seconds the sleep loop lasts when the currency does not change: 60 or 40
\* sleeps of 0.5 s.
SleepSecs(s) ==
  IF s = "BOC" THEN BOC_SLEEP_STEPS \div 2 ELSE CMB_SLEEP_STEPS \div 2

\* main.py 349-352, 372-375: the sleep loop ends when it has run out or the
\* currency is no longer the one the thread fetched for.
SleepOver(s) ==
  \/ current_currency # current[s]
  \/ now - sleep_start[s] >= SleepSecs(s)

\* Scheduling of the poller threads against the clock: a step that waits
\* for nothing is taken before the clock advances, a sleep loop that is over
\* ends before the clock advances again, and a fetch that has lasted
\* MaxLatency seconds returns.
Prompt(s) ==
  /\ pc[s] \notin {"read", "store"}
  /\ pc[s] = "sleep" => ~SleepOver(s)
  /\ pc[s] = "fetching" => now - last_invoke[s].at < MaxLatency

MainTickFrom(prices, limit) ==
  /\ program = "main"
  /\ ani_running
  /\ \A s \in Sources : Prompt(s)
  /\ \E price \in prices, d_live \in 0..MaxLatency :
       /\ PriceValid(price) => Len(appended) < MaxAppended
       /\ MainTickBody(price, d_live)
  /\ now' <= limit

MainTick == MainTickFrom(LivePrices, MaxTime)

\* change_currency(label), main.py 295-302, with refresh_data's
\* fetch_history.
change_currency(label) ==
  /\ program = "main"
  /\ switches < MaxSwitches
  /\ switches' = switches + 1
  /\ current_currency' = label
  /\ live_times' = << >>
  /\ live_rates' = << >>
  /\ appended' = << >>
  /\ \E response \in HistoryResponses(now) :
       hist_data' = fetch_history(response, now, current_range)
  /\ fill_collection' = FillAfter(fill_collection, all_rates(hist_data', << >>))
  /\ UNCHANGED ani_running
  /\ hist_key' = << label, current_range >>
  /\ fetch_issued' = TRUE
  /\ changed_since' = IF label # current_currency
                      THEN [s \in Sources |-> TRUE] ELSE changed_since
  /\ last_good' = IF label # current_currency THEN NoQuotes ELSE last_good
  /\ trend' = ResetVisuals(trend)
  /\ UNCHANGED << hover_vars, fetched, current_theme, program, now,
                  current_range, bank_rates, app_vars, thread_vars,
                  last_invoke, invocation, tick_info, writer >>

\* change_range(label), main.py 304-310, with refresh_data's fetch_history.
change_range(label) ==
  /\ program = "main"
  /\ switches < MaxSwitches
  /\ switches' = switches + 1
  /\ current_range' = label
  /\ live_times' = << >>
  /\ live_rates' = << >>
  /\ appended' = << >>
  /\ \E response \in HistoryResponses(now) :
       hist_data' = fetch_history(response, now, label)
  /\ fill_collection' = FillAfter(fill_collection, all_rates(hist_data', << >>))
  /\ UNCHANGED ani_running
  /\ hist_key' = << current_currency, label >>
  /\ fetch_issued' = TRUE
  /\ trend' = ResetVisuals(trend)
  /\ UNCHANGED << hover_vars, fetched, current_theme, program, now,
                  current_currency, bank_rates, app_vars, thread_vars,
                  last_good, last_invoke, changed_since, invocation,
                  tick_info, writer >>

\* --------------------------------------------- main.py: the poller threads
\* run_boc_loop / run_cmb_loop, main.py 330-375.
\* main.py 343, 366: what the thread stores after its fetch.
StoreMain(old, r) == r

\* main.py 333-341: read the currency, clear the quote when it differs from
\* the last one seen, and call the fetcher.
ThreadInvoke(s) ==
  LET noticed == current_currency # loop_last_currency[s]
  IN /\ program = "main"
     /\ pc[s] = "read"
     /\ current' = [current EXCEPT ![s] = current_currency]
     /\ loop_last_currency' =
          [loop_last_currency EXCEPT ![s] = current_currency]
     /\ bank_rates' = IF noticed THEN [bank_rates EXCEPT ![s] = None]
                                 ELSE bank_rates
     /\ pc' = [pc EXCEPT ![s] = "fetching"]
     /\ fetch_issued' = TRUE
     /\ last_good' = IF noticed THEN [last_good EXCEPT ![s] = None]
                                ELSE last_good
     /\ writer' = IF noticed THEN [writer EXCEPT ![s] = s] ELSE writer
     /\ last_invoke' = [last_invoke EXCEPT ![s] = [at |-> now, ok |-> FALSE]]
     /\ invocation' = [invocation EXCEPT ![s] =
                         [prev_at |-> last_invoke[s].at,
                          prev_ok |-> last_invoke[s].ok,
                          changed |-> changed_since[s]]]
     /\ changed_since' = [changed_since EXCEPT ![s] = FALSE]
     /\ UNCHANGED << hover_vars, fetched, current_theme, program, now,
                     gui_vars, app_vars, rate, sleep_start, tick_info,
                     anim_vars >>

\* main.py 341-342: the fetcher returns and the thread tests whether the
\* currency is still the one it fetched for.
ThreadReturn(s, response) ==
  LET r == get_rates(s, current[s], response)
      same == current_currency = current[s]
  IN /\ program = "main"
     /\ pc[s] = "fetching"
     /\ rate' = [rate EXCEPT ![s] = IF same THEN r ELSE None]
     /\ pc' = [pc EXCEPT ![s] = IF same THEN "store" ELSE "sleep"]
     /\ sleep_start' = IF same THEN sleep_start
                               ELSE [sleep_start EXCEPT ![s] = now]
     /\ last_invoke' = [last_invoke EXCEPT ![s].ok = RateTruthy(r)]
     /\ UNCHANGED << hover_vars, fetched, current_theme, program, now,
                     gui_vars, bank_rates, app_vars, current,
                     loop_last_currency, fetch_issued, last_good,
                     changed_since, invocation, tick_info, writer,
                     anim_vars >>

\* main.py 343-344, then the sleep loop begins.
ThreadStore(s) ==
  /\ program = "main"
  /\ pc[s] = "store"
  /\ bank_rates' = [bank_rates EXCEPT ![s] = StoreMain(bank_rates[s], rate[s])]
  /\ writer' = [writer EXCEPT ![s] = s]
  /\ last_good' = IF RateTruthy(rate[s])
                  THEN [last_good EXCEPT ![s] = rate[s]] ELSE last_good
  /\ rate' = [rate EXCEPT ![s] = None]
  /\ pc' = [pc EXCEPT ![s] = "sleep"]
  /\ sleep_start' = [sleep_start EXCEPT ![s] = now]
  /\ UNCHANGED << hover_vars, fetched, current_theme, program, now, gui_vars,
                  app_vars, current, loop_last_currency, fetch_issued,
                  last_invoke, changed_since, invocation, tick_info,
                  anim_vars >>

\* main.py 349-352: the sleep loop ends and the thread loops.
ThreadWake(s) ==
  /\ program = "main"
  /\ pc[s] = "sleep"
  /\ SleepOver(s)
  /\ pc' = [pc EXCEPT ![s] = "read"]
  /\ UNCHANGED << hover_vars, fetched, current_theme, program, now, gui_vars,
                  bank_rates, app_vars, current, loop_last_currency, rate,
                  sleep_start, fetch_issued, last_good, last_invoke,
                  changed_since, invocation, tick_info, writer, anim_vars >>

\* ------------------------------------------------- main.py: mouse handlers
Abs(n) == IF n < 0 THEN 0 - n ELSE n

\* bisect.bisect_left / np.searchsorted (side='left') on a[lo:hi], 0-based.
RECURSIVE BisectLoop(_, _, _, _)
BisectLoop(a, x, lo, hi) ==
  IF lo < hi
  THEN LET mid == (lo + hi) \div 2
       IN IF a[mid + 1] < x THEN BisectLoop(a, x, mid + 1, hi)
                            ELSE BisectLoop(a, x, lo, mid)
  ELSE lo

bisect_left(a, x) == BisectLoop(a, x, 0, Len(a))

\* A search that never looks at the earlier neighbour.
StepBackNever(d2, d1) == FALSE

\* main.py 509: the earlier neighbour is taken when it is strictly closer.
StepBack(d2, d1) == d2 < d1

\* A search that wraps an index past the end round to the first sample.
NearestIndexWraps(xs, target) ==
  LET idx == bisect_left(xs, target)
  IN IF idx >= Len(xs) THEN 0
     ELSE IF idx > 0
          THEN LET d1 == Abs(xs[idx + 1] - target)
                   d2 == Abs(xs[idx] - target)
               IN IF StepBack(d2, d1) THEN idx - 1 ELSE idx
          ELSE idx

\* main.py 492-510: the index, 0-based, of the sample shown for `target`.
NearestIndex(xs, target) ==
  LET idx == bisect_left(xs, target)
  IN IF idx >= Len(xs) THEN Len(xs) - 1
     ELSE IF idx > 0
          THEN LET d1 == Abs(xs[idx + 1] - target)
                   d2 == Abs(xs[idx] - target)
               IN IF StepBack(d2, d1) THEN idx - 1 ELSE idx
          ELSE idx

\* A handler that draws the cursor at the pointer when the line is empty.
on_mouse_move_marks_empty(xdata) ==
  /\ program = "main"
  /\ IF Len(x_data) = 0
     THEN /\ query' = [outcome |-> "returned", target |-> xdata, idx |-> 0]
          /\ tooltip' = [visible |-> TRUE, x |-> xdata, y |-> 0]
     ELSE LET idx == NearestIndex(x_data, xdata)
          IN /\ tooltip' = [visible |-> TRUE, x |-> x_data[idx + 1],
                            y |-> y_data[idx + 1]]
             /\ query' = [outcome |-> "shown", target |-> xdata, idx |-> idx]
  /\ UNCHANGED << fetched, current_theme, program, now, gui_vars, bank_rates,
                  app_vars, thread_vars, fetch_issued, last_good, last_invoke,
                  changed_since, invocation, tick_info, writer, x_data,
                  y_data, anim_vars >>

\* on_mouse_move(event) with the pointer inside the axes, main.py 458-528.
on_mouse_move(xdata) ==
  /\ program = "main"
  /\ IF Len(x_data) = 0
     THEN /\ query' = [outcome |-> "returned", target |-> xdata, idx |-> 0]
          /\ UNCHANGED tooltip
     ELSE LET idx == NearestIndex(x_data, xdata)
          IN /\ tooltip' = [visible |-> TRUE, x |-> x_data[idx + 1],
                            y |-> y_data[idx + 1]]
             /\ query' = [outcome |-> "shown", target |-> xdata, idx |-> idx]
  /\ UNCHANGED << fetched, current_theme, program, now, gui_vars, bank_rates,
                  app_vars, thread_vars, fetch_issued, last_good, last_invoke,
                  changed_since, invocation, tick_info, writer, x_data,
                  y_data, anim_vars >>

\* on_mouse_leave(event), main.py 452-456.
on_mouse_leave ==
  /\ program = "main"
  /\ tooltip' = [tooltip EXCEPT !.visible = FALSE]
  /\ UNCHANGED << fetched, current_theme, program, now, gui_vars, bank_rates,
                  app_vars, thread_vars, fetch_issued, last_good, last_invoke,
                  changed_since, invocation, tick_info, writer, x_data,
                  y_data, query, anim_vars >>

\* ------------------------------------------------------------------- Init
NoFetch == [fn |-> "none"]

Ghosts ==
  /\ switches = 0
  /\ appended = << >>
  /\ fetch_issued = TRUE
  /\ hist_key = << DefaultCurrency, DefaultRange >>
  /\ last_good = NoQuotes
  /\ last_invoke = [s \in Sources |-> NoInvoke]
  /\ changed_since = [s \in Sources |-> FALSE]
  /\ invocation = [s \in Sources |-> NoInvocation]
  /\ tick_info = NoTick
  /\ writer = [s \in Sources |-> "none"]
  /\ fetched = NoFetch

Hidden == [visible |-> FALSE, x |-> 0, y |-> 0]
NoQuery == [outcome |-> "none", target |-> 0, idx |-> 0]

\* main.py 272-288: an empty line, the cursor line and the tooltip hidden.
Plot ==
  /\ x_data = << >>
  /\ y_data = << >>
  /\ tooltip = Hidden
  /\ query = NoQuery

\* main.py 157, 181: no fill, then refresh_data's update_visuals(0, 0) draws
\* one when the first history has rows; app.py has neither fill nor timer.
Animation ==
  /\ fill_collection = IF program = "main"
                       THEN FillAfter("None", all_rates(hist_data, << >>))
                       ELSE "None"
  /\ ani_running = TRUE

Threads ==
  /\ pc = [s \in Sources |-> "read"]
  /\ current = [s \in Sources |-> "None"]
  /\ loop_last_currency = [s \in Sources |-> "None"]
  /\ rate = NoQuotes
  /\ sleep_start = FarPast

\* app.py 83-177: the first run of the script.
InitApp ==
  /\ program = "app"
  /\ now = StartTime
  /\ current_currency = DefaultCurrency
  /\ current_range = DefaultRange
  /\ current_theme = DefaultTheme
  /\ live_times = << >>
  /\ live_rates = << >>
  /\ bank_rates = NoQuotes
  /\ last_bank_update = FarPast
  /\ last_currency = DefaultCurrency
  /\ \E response \in HistoryResponses(StartTime) :
       /\ hist_data = response
       /\ hist_cache = [k \in Keys |->
                          IF k = << DefaultCurrency, DefaultRange >>
                          THEN Some([data |-> response, at |-> StartTime])
                          ELSE None]
  /\ trend = NoTrend
  /\ Threads
  /\ Ghosts
  /\ Animation
  /\ Plot

\* ExchangeRateMonitor.__init__, main.py 101-182.
InitMain ==
  /\ program = "main"
  /\ now = StartTime
  /\ current_currency = DefaultCurrency
  /\ current_range = DefaultRange
  /\ current_theme = DefaultTheme
  /\ live_times = << >>
  /\ live_rates = << >>
  /\ bank_rates = NoQuotes
  /\ last_bank_update = FarPast
  /\ last_currency = DefaultCurrency
  /\ \E response \in HistoryResponses(StartTime) :
       hist_data = fetch_history(response, StartTime, DefaultRange)
  /\ hist_cache = [k \in Keys |-> None]
  /\ trend = ResetVisuals(NoTrend)
  /\ Threads
  /\ Ghosts
  /\ Animation
  /\ Plot

Init == InitApp \/ InitMain

AppSwitch == \E c \in Currencies, r \in Ranges : AppRerun(c, r)
ChangeCurrency == \E label \in Currencies : change_currency(label)
ChangeRange == \E label \in Ranges : change_range(label)
Invoke == \E s \in Sources : ThreadInvoke(s)
Return ==
  \E s \in Sources, response \in BankResponses : ThreadReturn(s, response)
Store == \E s \in Sources : ThreadStore(s)
Wake == \E s \in Sources : ThreadWake(s)

Next ==
  \/ AppTick
  \/ AppSwitch
  \/ MainTick
  \/ ChangeCurrency
  \/ ChangeRange
  \/ Invoke
  \/ Return
  \/ Store
  \/ Wake

Spec == Init /\ [][Next]_vars

\* The polling schedule over a long horizon: the live feed delivers nothing
\* and the selection stays as it is.
PollAppTick == AppTickFrom({None}, PollMaxTime)
PollMainTick == MainTickFrom({None}, PollMaxTime)

NextPoll ==
  \/ PollAppTick
  \/ PollMainTick
  \/ Invoke
  \/ Return
  \/ Store
  \/ Wake

SpecPoll == Init /\ [][NextPoll]_vars

\* The nearest-sample search on every time-ordered line of up to MaxView
\* samples, for every pointer position around and between the samples.
Stamps == 1..MaxStamp
Targets == 0..(MaxStamp + 1)
Lines ==
  UNION {{xs \in [1..n -> Stamps] : IsSorted(xs)} : n \in 0..MaxView}

InitNearest ==
  /\ program = "main"
  /\ now = StartTime
  /\ current_currency = DefaultCurrency
  /\ current_range = DefaultRange
  /\ current_theme = DefaultTheme
  /\ live_times = << >>
  /\ live_rates = << >>
  /\ hist_data = << >>
  /\ bank_rates = NoQuotes
  /\ last_bank_update = FarPast
  /\ last_currency = DefaultCurrency
  /\ hist_cache = [k \in Keys |-> None]
  /\ trend = ResetVisuals(NoTrend)
  /\ Threads
  /\ Ghosts
  /\ Animation
  /\ x_data \in Lines
  /\ y_data \in [1..Len(x_data) -> Rates]
  /\ tooltip = Hidden
  /\ query = NoQuery

MouseMove == \E xdata \in Targets : on_mouse_move(xdata)
MouseLeave == on_mouse_leave

NextNearest ==
  \/ MouseMove
  \/ MouseLeave

SpecNearest == InitNearest /\ [][NextNearest]_vars

\* The live feed and the trend: every answer of the provider, rates that
\* rise, fall and are zero, over the first few ticks of either program.
FeedAppMaxTime == StartTime + FeedAppHorizon
FeedMainMaxTime == StartTime + FeedMainHorizon

FeedHistories(t) ==
  UNION { { [i \in 1..n |-> Bar(t - n + i, f[i])] : f \in [1..n -> Closes] }
          : n \in 0..MaxBars }

AppFeed == {AppLivePrice(fast, day) : fast \in FastInfo, day \in DayHistory}
MainFeed == {get_live_rate(fast, day) : fast \in FastInfo, day \in DayHistory}

InitFeedApp ==
  /\ program = "app"
  /\ now = StartTime
  /\ current_currency = DefaultCurrency
  /\ current_range = DefaultRange
  /\ current_theme = DefaultTheme
  /\ live_times = << >>
  /\ live_rates = << >>
  /\ bank_rates = NoQuotes
  /\ last_bank_update = FarPast
  /\ last_currency = DefaultCurrency
  /\ \E response \in FeedHistories(StartTime) :
       /\ hist_data = response
       /\ hist_cache = [k \in Keys |->
                          IF k = << DefaultCurrency, DefaultRange >>
                          THEN Some([data |-> response, at |-> StartTime])
                          ELSE None]
  /\ trend = NoTrend
  /\ Threads
  /\ Ghosts
  /\ Animation
  /\ Plot

InitFeedMain ==
  /\ program = "main"
  /\ now = StartTime
  /\ current_currency = DefaultCurrency
  /\ current_range = DefaultRange
  /\ current_theme = DefaultTheme
  /\ live_times = << >>
  /\ live_rates = << >>
  /\ bank_rates = NoQuotes
  /\ last_bank_update = FarPast
  /\ last_currency = DefaultCurrency
  /\ \E response \in FeedHistories(StartTime) :
       hist_data = fetch_history(response, StartTime, DefaultRange)
  /\ hist_cache = [k \in Keys |-> None]
  /\ trend = ResetVisuals(NoTrend)
  /\ Threads
  /\ Ghosts
  /\ Animation
  /\ Plot

InitFeed == InitFeedApp \/ InitFeedMain

FeedAppTick == AppTickFrom(AppFeed, FeedAppMaxTime)
FeedMainTick == MainTickFrom(MainFeed, FeedMainMaxTime)

NextFeed ==
  \/ FeedAppTick
  \/ FeedMainTick
  \/ Invoke
  \/ Return
  \/ Store

SpecFeed == InitFeed /\ [][NextFeed]_vars

\* ------------------------------------------------- the fetches on their own
\* What a call does: it returns a value or it raises.
Returned(v) == [raised |-> FALSE, value |-> v]
Raised(e) == [raised |-> TRUE, value |-> e]

\* A call whose exceptions are not handled.
ExceptNothing(outcome, fallback) == outcome

\* try: ... except: return <fallback>  (app.py 49, 67, 167-168, 194-195;
\* main.py 62-64, 96-98, 427-429, 448-450).
Except(outcome, fallback) ==
  IF outcome.raised THEN Returned(fallback) ELSE outcome

\* A currency code that currency_map has no entry for.
Unsupported == "XXX"
Codes == Currencies \cup {Unsupported}

\* self.currency_map.get(currency_code): the display name, or None.  The
\* model writes a currency's display name as its code.
currency_map(currency_code) ==
  IF currency_code \in Currencies THEN Some(currency_code) ELSE None

\* `target_name in text`: the texts of the model are one display name or
\* none, so that containment is equality.
Contains(text, target_name) == text = target_name

\* requests.get(url, timeout=...): it raises on a timeout or a transport
\* error, or returns a response with a status code and a body.
Transports == {"Timeout", "ConnectionError"}
Statuses == {200, 500}

\* The rows of the tables of the bank's page, each a sequence of cell
\* texts.  A page that is no table at all has no rows; rows have 0..5
\* cells; the sell cells are a price or empty.
BocCells == {"7.80", ""}
BocRows ==
  {<< >>}
    \cup {<< name >> : name \in Currencies}
    \cup {<< name, "buy" >> : name \in Currencies}
    \cup {<< name, "buy", "buy" >> : name \in Currencies}
    \cup {<< name, "buy", "buy", c >> : name \in Currencies, c \in BocCells}
    \cup {<< name, "buy", "buy", c, d >> :
            name \in Currencies, c \in BocCells, d \in BocCells}
BocPages == UNION {[1..n -> BocRows] : n \in 0..MaxRows}

BocWires ==
  {[net |-> t] : t \in Transports}
    \cup {[net |-> "ok", status |-> st, rows |-> page] :
            st \in Statuses, page \in BocPages}

SellRates(spot, cash) == [spot_sell |-> spot, cash_sell |-> cash]

\* app.py 43-48, main.py 50-61: the first row whose first cell holds the
\* name gives cells 3 and 4; indexing a row of fewer cells raises.
RECURSIVE ScanRows(_, _, _)
ScanRows(rows, target_name, i) ==
  IF i > Len(rows) THEN Returned(None)
  ELSE LET cols == rows[i]
       IN IF Len(cols) > 0 /\ Contains(cols[1], target_name)
          THEN IF Len(cols) < 5 THEN Raised("IndexError")
               ELSE Returned(Some(SellRates(cols[4], cols[5])))
          ELSE ScanRows(rows, target_name, i + 1)

\* The body of get_boc_rates' try block (app.py 35-48, main.py 40-61); the
\* status code of the response is not looked at.
BocTry(currency_code, wire) ==
  IF wire.net # "ok" THEN Raised(wire.net)
  ELSE LET target_name == currency_map(currency_code)
       IN IF IsNone(target_name) THEN Returned(None)
          ELSE ScanRows(wire.rows, Val(target_name), 1)

\* get_boc_rates as a whole, app.py 33-49, main.py 37-64.
boc_rates(currency_code, wire) == Except(BocTry(currency_code, wire), None)

\* The bank's JSON: text that does not parse, null, a list, an object
\* without 'body', an object whose 'body' is null, or an object whose
\* 'body' is a list of entries.  An entry has any of the fields ccyNbr,
\* rthOfr, rtcOfr.
CmbFields == {"ccyNbr", "rthOfr", "rtcOfr"}
CmbValues(k) == IF k = "ccyNbr" THEN Currencies ELSE {"7.80"}
CmbItems ==
  UNION {{f \in [D -> Currencies \cup {"7.80"}] :
            \A k \in D : f[k] \in CmbValues(k)} : D \in SUBSET CmbFields}
CmbBodies == UNION {[1..n -> CmbItems] : n \in 0..MaxRows}
CmbDocs ==
  {[kind |-> k] : k \in {"malformed", "null", "list", "nobody", "nullbody"}}
    \cup {[kind |-> "body", body |-> b] : b \in CmbBodies}

CmbWires ==
  {[net |-> t] : t \in Transports}
    \cup {[net |-> "ok", status |-> st, json |-> d] :
            st \in Statuses, d \in CmbDocs}

\* dict.get(key, default)
Get(item, key, default) == IF key \in DOMAIN item THEN item[key] ELSE default

\* app.py 63-66, main.py 87-94: the first entry whose ccyNbr holds the name
\* gives rthOfr and rtcOfr, 'N/A' for a field the entry lacks.  With no
\* name (app.py only), `None in <str>` raises.
RECURSIVE ScanItems(_, _, _)
ScanItems(body, target_name, i) ==
  IF i > Len(body) THEN Returned(None)
  ELSE IF IsNone(target_name) THEN Raised("TypeError")
  ELSE IF Contains(Get(body[i], "ccyNbr", ""), Val(target_name))
       THEN Returned(Some(SellRates(Get(body[i], "rthOfr", "N/A"),
                                    Get(body[i], "rtcOfr", "N/A"))))
       ELSE ScanItems(body, target_name, i + 1)

\* The body of get_cmb_rates' try block (app.py 53-66, main.py 69-95);
\* only main.py returns early for a code without a name (main.py 83-84).
CmbTry(prog, currency_code, wire) ==
  IF wire.net # "ok" THEN Raised(wire.net)
  ELSE IF wire.status # 200 THEN Returned(None)
  ELSE IF wire.json.kind = "malformed" THEN Raised("JSONDecodeError")
  ELSE LET target_name == currency_map(currency_code)
       IN IF prog = "main" /\ IsNone(target_name) THEN Returned(None)
          ELSE IF wire.json.kind \in {"null", "nullbody"}
               THEN Raised("TypeError")
          ELSE IF wire.json.kind \in {"list", "nobody"} THEN Returned(None)
          ELSE ScanItems(wire.json.body, target_name, 1)

\* get_cmb_rates as a whole, app.py 51-67, main.py 66-98.
cmb_rates(prog, currency_code, wire) ==
  Except(CmbTry(prog, currency_code, wire), None)

\* The live quote without its handler: the snapshot, then today's history
\* when the snapshot is None or NaN (app.py 187-193, main.py 435-447).
LiveTry(prog, fast, day) ==
  IF fast.kind = "raise" THEN Raised("fast_info")
  ELSE IF fast.kind \in {"none", "nan"} /\ day.kind = "raise"
       THEN Raised("history")
  ELSE LET price == IF fast.kind \in {"none", "nan"} /\ day.kind # "empty"
                    THEN PriceOf(day) ELSE PriceOf(fast)
       IN IF prog = "main" /\ NotNumber(price) THEN Returned(None)
          ELSE Returned(price)

live_rate(prog, fast, day) == Except(LiveTry(prog, fast, day), None)

\* What the provider answers to the history request: the call raises, or
\* gives a frame whose index carries a time zone or does not.
EmptyFrame == << >>
HistoryAnswers ==
  {[kind |-> "raise"]}
    \cup {[kind |-> k, rows |-> r] :
            k \in {"aware", "naive"}, r \in FeedHistories(StartTime)}

\* The history request without its handler.  app.py 165-166 returns the
\* frame as it is; main.py 412-425 converts the index of a frame that is not
\* empty to local time, which raises on an index without a time zone, and
\* keeps the rows of the range.
HistoryTry(prog, answer, t, range) ==
  IF answer.kind = "raise" THEN Raised("history")
  ELSE IF prog = "app" THEN Returned(answer.rows)
  ELSE IF answer.rows = EmptyFrame THEN Returned(EmptyFrame)
  ELSE IF answer.kind = "naive" THEN Raised("TypeError")
  ELSE Returned(fetch_history(answer.rows, t, range))

history_of(prog, answer, t, range) ==
  Except(HistoryTry(prog, answer, t, range), EmptyFrame)

Call(fn, arg, wire, out) ==
  [fn |-> fn, arg |-> arg, wire |-> wire, out |-> out]

\* The fetchers keep no state, so that every case is a first fetch: the
\* frame lets each behaviour make one.
FetchFrame ==
  /\ fetched = NoFetch
  /\ UNCHANGED << program, now, gui_vars, bank_rates, app_vars, thread_vars,
                  hover_vars, current_theme, fetch_issued, last_good,
                  last_invoke, changed_since, invocation, tick_info, writer,
                  anim_vars >>

FetchBoc ==
  /\ FetchFrame
  /\ \E code \in Codes, wire \in BocWires :
       fetched' = Call("boc", code, wire, boc_rates(code, wire))

FetchCmb ==
  /\ FetchFrame
  /\ \E code \in Codes, wire \in CmbWires :
       fetched' = Call("cmb", code, wire, cmb_rates(program, code, wire))

FetchLive ==
  /\ FetchFrame
  /\ \E fast \in FastInfo, day \in DayHistory :
       fetched' = Call("live", current_currency, << fast, day >>,
                       live_rate(program, fast, day))

FetchHistory ==
  /\ FetchFrame
  /\ \E answer \in HistoryAnswers, range \in Ranges :
       fetched' = Call("history", range, answer,
                       history_of(program, answer, now, range))

InitFetch == Init

NextFetch ==
  \/ FetchBoc
  \/ FetchCmb
  \/ FetchLive
  \/ FetchHistory

SpecFetch == InitFetch /\ [][NextFetch]_vars

\* ---------------------------------------------------- the loop, with fairness
\* The programs of Spec under the scheduling the code relies on: app.py's
\* `while True` goes on to its next iteration, main.py's timer fires while it
\* is scheduled, and a poller thread that can take a step takes it.  Nothing
\* is assumed of the user or of the providers' answers.
LoopFairness ==
  /\ WF_vars(AppTick)
  /\ WF_vars(MainTick)
  /\ WF_vars(Invoke)
  /\ WF_vars(Return)
  /\ WF_vars(Store)
  /\ WF_vars(Wake)

SpecLoop == Init /\ [][Next]_vars /\ LoopFairness

\* ------------------------------------------------------- the theme widget
\* change_theme(label), main.py 312-318: the theme is stored and apply_theme
\* (220-265) recolours the figure.
change_theme(label) ==
  /\ program = "main"
  /\ switches < MaxSwitches
  /\ switches' = switches + 1
  /\ current_theme' = label
  /\ UNCHANGED << hover_vars, fetched, program, now, current_currency,
                  current_range, live_times, live_rates, hist_data, appended,
                  hist_key, trend, bank_rates, app_vars, thread_vars,
                  fetch_issued, last_good, last_invoke, changed_since,
                  invocation, tick_info, writer, anim_vars >>

\* app.py 98-99: another theme is selected and the script reruns with the
\* currency and the range as they are.
AppTheme ==
  \E label \in Themes \ {current_theme} :
    AppRerunTo(current_currency, current_range, label)

ChangeTheme == \E label \in Themes : change_theme(label)

\* Theme changes while the program runs: app.py under a silent live feed,
\* long enough for a cached history to grow older than its time to live;
\* main.py with its live feed and its pollers.
ThemeAppMaxTime == StartTime + ThemeAppHorizon
ThemeMainMaxTime == StartTime + ThemeMainHorizon

ThemeAppTick == AppTickFrom({None}, ThemeAppMaxTime)
ThemeMainTick == MainTickFrom(LivePrices, ThemeMainMaxTime)

InitTheme == Init

NextTheme ==
  \/ ThemeAppTick
  \/ AppTheme
  \/ ThemeMainTick
  \/ ChangeTheme
  \/ Invoke
  \/ Return
  \/ Store

SpecTheme == InitTheme /\ [][NextTheme]_vars

\* ----------------------------------------------------------------- claims
\* The samples the live buffer holds, as appended.
Held == LastN(appended, Len(live_times))

\* C1: the live buffer never holds more than Capacity samples, and it holds
\* exactly the most recently appended min(n, Capacity) samples, in the order
\* they were appended.
C1_LiveBufferIsLastAppended ==
  /\ Len(live_times) <= Capacity
  /\ Len(live_times) = Min(Len(appended), Capacity)
  /\ live_times = [i \in 1..Len(live_times) |->
                     LastN(appended, Capacity)[i].t]
  /\ live_rates = [i \in 1..Len(live_times) |->
                     LastN(appended, Capacity)[i].rate]

\* An eviction has happened: more samples were appended than the buffer holds.
C1_Witness == Len(appended) > Capacity /\ Len(live_times) = Capacity

\* C2: the stitched view, history followed by the live buffer, is
\* non-decreasing in timestamp in every reachable state.
C2_ViewSorted == IsSorted(ViewTimes)

\* C3: once a fetch has been issued for the selected currency, no bank quote
\* and no live sample of another currency is held.
C3_ResetBeforeFetch ==
  fetch_issued =>
    /\ \A s \in Sources :
         ~IsNone(bank_rates[s]) => Val(bank_rates[s]).ccy = current_currency
    /\ \A i \in 1..Len(Held) : Held[i].ccy = current_currency

RangeChangedAlone ==
  /\ current_range' # current_range
  /\ current_currency' = current_currency

C5_QuoteKeptOnFailure ==
  \A s \in Sources : ~IsNone(last_good[s]) => bank_rates[s] = last_good[s]

\* C8: the invocation of a bank source is never delayed by the other bank
\* source's fetch, and the next tick is never delayed by a bank fetch.
C8_PollersIndependent ==
  /\ \A s \in Sources : tick_info.peer_wait[s] = 0
  /\ tick_info.loop_wait = 0

\* C9: the bank quotes are written only by the controller's tick thread,
\* never by a background fetch thread.
C9_SingleWriter == \A s \in Sources : writer[s] \in {"none", "loop"}

\* C6: a bank source is invoked exactly when the time since its last fetch
\* exceeds its interval, 30 (BOC) or 10 (CMB): a tick invokes the sources that
\* are due and no others, and once more than the interval has passed no
\* poller is still waiting out a sleep.
C6_DueIffIntervalElapsed ==
  /\ program = "app" /\ tick_info.at # 0 =>
       \A s \in Sources :
         tick_info.invoked[s] <=>
           tick_info.at - tick_info.last[s] > Interval(s)
  /\ program = "main" =>
       \A s \in Sources :
         last_invoke[s].at # 0 /\ now - last_invoke[s].at > Interval(s) =>
           ~(pc[s] = "sleep" /\ ~SleepOver(s))

C10_NearestIsMinimal ==
  query.outcome = "shown" =>
    /\ query.idx \in 0..(Len(x_data) - 1)
    /\ tooltip.x = x_data[query.idx + 1]
    /\ \A j \in 1..Len(x_data) :
         Abs(x_data[query.idx + 1] - query.target)
           <= Abs(x_data[j] - query.target)

\* The pointer lay strictly between two samples, nearer to the earlier one,
\* and the earlier one is shown.
C10_Witness ==
  /\ query.outcome = "shown"
  /\ query.idx + 2 <= Len(x_data)
  /\ x_data[query.idx + 1] < query.target
  /\ query.target < x_data[query.idx + 2]

\* C11: when the pointer lies exactly midway between two adjacent samples of
\* the line, the earlier of the two is the sample shown.
C11_TieReturnsEarlier ==
  query.outcome = "shown" =>
    \A i \in 1..(Len(x_data) - 1) :
      /\ x_data[i] < x_data[i + 1]
      /\ query.target - x_data[i] = x_data[i + 1] - query.target
      => query.idx + 1 = i

\* C12: on a non-empty line a pointer before the first timestamp shows the
\* first sample, a pointer after the last timestamp shows the last sample,
\* and the index found is always an index of the line.
C12_ClampToBoundary ==
  query.outcome = "shown" =>
    /\ query.idx \in 0..(Len(x_data) - 1)
    /\ query.target < x_data[1] => query.idx = 0
    /\ query.target > x_data[Len(x_data)] => query.idx = Len(x_data) - 1
    /\ tooltip.x = x_data[query.idx + 1]
    /\ tooltip.y = y_data[query.idx + 1]

\* The pointer lay beyond the last of several samples and the last is shown.
C12_Witness ==
  /\ query.outcome = "shown"
  /\ Len(x_data) >= 2
  /\ query.target > x_data[Len(x_data)]
  /\ query.idx = Len(x_data) - 1

\* C13 as stated: a mouse move over an empty line ends with the error
\* NoData handed to its caller, not with a silent return.
C13_EmptyViewYieldsNoData ==
  Len(x_data) = 0 /\ query.outcome # "none" => query.outcome = "NoData"

\* C13 as amended: a mouse move over an empty line returns silently, with
\* no error and no sample, and changes nothing: the cursor line, the tooltip
\* and all other state stay as they were.
C13_EmptyViewReturnsSilently ==
  [][Len(x_data) = 0 /\ query' # query =>
       /\ query'.outcome = "returned"
       /\ UNCHANGED << fetched, current_theme, program, now, gui_vars,
                       bank_rates, app_vars, thread_vars, x_data, y_data,
                       tooltip, anim_vars >>]_vars

\* A mouse move over an empty line has been handled.
C13_Witness == Len(x_data) = 0 /\ query.outcome = "returned"

\* A step in which the trend was computed anew.
TrendComputed == trend'.at # trend.at /\ trend'.at # 0

\* The baseline the programs use: the first close of the history, or the
\* current value itself when there is no history.
FirstCloseOr(cur, hist) == IF hist # << >> THEN hist[1].close ELSE cur

\* C14: when the view is empty, no history and no live sample, the trend
\* computed on a tick is delta 0, percentage 0 and direction Up, and the
\* colours set when the data is refreshed are those of Up.
C14_EmptyViewFlatTrend ==
  ViewTimes = << >> =>
    /\ program = "app" /\ trend.at # 0 =>
         /\ trend.delta = 0
         /\ trend.pct = 0
         /\ trend.direction = "Up"
    /\ program = "main" => trend.color = "Up"

\* A tick of app.py computed the trend of an empty view.
C14_Witness == program = "app" /\ ViewTimes = << >> /\ trend.at # 0

\* C15 as stated: whenever the view is not empty the baseline is the value
\* of its first sample, the first live sample when there is no history: the
\* delta is the current value minus that sample.
C15_BaselineIsFirstOfView ==
  [][TrendComputed /\ ViewRates' # << >> /\ ~IsNaN(trend'.current)
                   /\ ~IsNaN(ViewRates'[1]) =>
       trend'.delta = trend'.current - ViewRates'[1]]_vars

\* C15 as amended: the baseline is the first close of the history whenever
\* the history is not empty; when it is empty the baseline is the current
\* value itself, so the delta is 0, whether or not the live buffer holds
\* samples.
C15_BaselineIsFirstClose ==
  [][TrendComputed /\ ~IsNaN(trend'.current) =>
       /\ hist_data' # << >> =>
            trend'.delta = trend'.current - hist_data'[1].close
       /\ hist_data' = << >> => trend'.delta = 0]_vars

\* Without history, a tick whose value differs from the first live sample
\* published a delta of 0.
C15_Witness ==
  /\ hist_data = << >>
  /\ Len(live_rates) >= 2
  /\ trend.took
  /\ trend.current = live_rates[Len(live_rates)]
  /\ trend.current # live_rates[1]
  /\ trend.delta = 0

\* C16: when the baseline is 0 the percentage published is 0.
C16_ZeroBaselineZeroPercent ==
  [][TrendComputed /\ FirstCloseOr(trend'.current, hist_data') = 0 =>
       trend'.pct = 0]_vars

\* C17: after a tick appended a live sample, the published delta is that
\* sample's value minus the baseline and the direction is Up exactly when
\* the delta is at least 0.
C17_TrendAfterAppend ==
  [][TrendComputed /\ trend'.took =>
       /\ appended' = Append(appended, appended'[Len(appended')])
       /\ trend'.current = appended'[Len(appended')].rate
       /\ IF IsNaN(trend'.current)
          THEN IsNaN(trend'.delta)
          ELSE trend'.delta =
                 trend'.current - FirstCloseOr(trend'.current, hist_data')
       /\ trend'.direction = "Up" <=>
            ~IsNaN(trend'.delta) /\ trend'.delta >= 0
       /\ trend'.direction \in {"Up", "Down"}]_vars

\* History starts at 7.80 and the live sample 7.85 was appended: delta 0.05,
\* 0.64 percent, Up.
C17_Witness ==
  /\ hist_data # << >>
  /\ hist_data[1].close = 780
  /\ trend.took
  /\ trend.current = 785
  /\ trend.delta = 5
  /\ trend.pct = 64
  /\ trend.direction = "Up"

\* C18: no sample whose value is NaN is ever held in the live buffer.
C18_NoNaNInLiveBuffer ==
  \A i \in 1..Len(live_rates) : ~IsNaN(live_rates[i])

\* The failure modes of a bank fetch: a timeout or transport error, a
\* status other than 200 (commercial bank), JSON that does not parse or has
\* another shape than an object, a currency code without a display name, a
\* matching row of fewer than 5 cells.
ShortRowFirst(rows, code) ==
  \E i \in 1..Len(rows) :
    /\ Len(rows[i]) \in 1..4
    /\ rows[i][1] = code
    /\ \A j \in 1..(i - 1) : Len(rows[j]) = 0 \/ rows[j][1] # code

BankFailure(call) ==
  \/ call.wire.net \in Transports
  \/ call.arg = Unsupported
  \/ call.fn = "boc" /\ ShortRowFirst(call.wire.rows, call.arg)
  \/ call.fn = "cmb" /\ call.wire.status # 200
  \/ call.fn = "cmb" /\ call.wire.json.kind # "body"

\* C19: every fetch (central bank, commercial bank, live quote, history)
\* returns to its caller under every answer of the provider: no exception
\* leaves it, and under each failure mode of a bank fetch, a raised live
\* quote request and a raised history request, what it returns is the
\* no-value result (None, an empty frame).
C19_NoExceptionEscapes ==
  fetched.fn # "none" =>
    /\ ~fetched.out.raised
    /\ fetched.fn \in {"boc", "cmb"} /\ BankFailure(fetched)
         => fetched.out.value = None
    /\ fetched.fn = "live" /\ fetched.wire[1].kind = "raise"
         => fetched.out.value = None
    /\ fetched.fn = "history" /\ fetched.wire.kind = "raise"
         => fetched.out.value = EmptyFrame

\* A matching row of four cells, whose fifth cell the fetcher indexes, has
\* been answered with None.
C19_Witness ==
  /\ fetched.fn = "boc"
  /\ fetched.arg = "USD"
  /\ fetched.wire.net = "ok"
  /\ fetched.wire.rows = << << "USD", "buy", "buy", "7.80" >> >>
  /\ fetched.out = Returned(None)

\* The first entry of the answer that matches the code, if there is one.
MatchingItems(call) ==
  IF call.wire.net = "ok" /\ call.wire.status = 200
       /\ call.wire.json.kind = "body"
  THEN LET body == call.wire.json.body
       IN {body[i] : i \in {k \in 1..Len(body) :
             /\ Get(body[k], "ccyNbr", "") = call.arg
             /\ \A j \in 1..(k - 1) : Get(body[j], "ccyNbr", "") # call.arg}}
  ELSE {}

\* C20: the commercial-bank fetch returns a quote only if the matching
\* entry of the answer holds both sell fields, and then with the entry's
\* own values; an entry that lacks one of them gives no quote.
C20_QuoteOnlyFromBothFields ==
  fetched.fn = "cmb" /\ ~IsNone(fetched.out.value) =>
    \E item \in MatchingItems(fetched) :
      /\ {"rthOfr", "rtcOfr"} \subseteq DOMAIN item
      /\ Val(fetched.out.value) = SellRates(item["rthOfr"], item["rtcOfr"])

\* A tick of either program whose live-quote fetch gave no value.
TickWithoutQuote ==
  \/ AppTickFrom({None}, FeedAppMaxTime)
  \/ MainTickFrom({None}, FeedMainMaxTime)

\* A rate of zero has been obtained: it is in the history or the live buffer.
ZeroObtained ==
  \/ \E i \in 1..Len(hist_data) : hist_data[i].close = 0
  \/ \E i \in 1..Len(live_rates) : live_rates[i] = 0

\* C21: a tick whose live-quote fetch gave no value never publishes a
\* current rate of 0 that no fetch obtained: what is published after it is
\* nothing, or a rate held in the history or the live buffer.
C21_NoZeroForMissingData ==
  [][TickWithoutQuote /\ trend'.at # 0 /\ trend'.current = 0
       => ZeroObtained]_vars

\* C23: every tick, a tick whose live-quote fetch returned no value
\* included, computes the trend and publishes it: after the tick the
\* published trend is the one of this tick, computed not before the tick
\* began.
C23_EveryTickPublishes ==
  [][FeedAppTick \/ FeedMainTick
       => trend'.at >= now /\ trend'.at # trend.at]_vars

\* What the live quote should be for the provider's two answers: the
\* snapshot when it is a number, else the last close of today's history
\* when that is a number, else no value.
QuoteExpected(fast, day) ==
  IF fast.kind = "num" THEN Some(fast.v)
  ELSE IF day.kind = "num" THEN Some(day.v) ELSE None

\* C24: when the snapshot request does not raise, the live quote is the
\* snapshot if that is present and not NaN, whatever the history request
\* would answer; otherwise the last close of today's history if there is
\* one and it is a number; otherwise no value.
C24_LiveQuoteFallback ==
  fetched.fn = "live" /\ fetched.wire[1].kind # "raise" =>
    fetched.out = Returned(QuoteExpected(fetched.wire[1], fetched.wire[2]))

\* A step that selects another currency or another range.
SelectionChanged ==
  current_currency' # current_currency \/ current_range' # current_range

\* A tick: the only steps that let time pass.
TickStep == now' > now

C26_ThemeChangeKeepsCore ==
  [][current_theme' # current_theme =>
       UNCHANGED << live_times, live_rates, hist_data, bank_rates,
                    last_bank_update, thread_vars, current_currency,
                    current_range >>]_vars

\* C27: in main.py no step stores a bank quote that was fetched for another
\* currency than the one selected at the moment of the store.
C27_StoreOnlyForSelectedCurrency ==
  [][program = "main" =>
       \A s \in Sources :
         bank_rates'[s] # bank_rates[s] /\ ~IsNone(bank_rates'[s])
           => Val(bank_rates'[s]).ccy = current_currency']_vars

Last(seq) == seq[Len(seq)]

\* C28: after a tick whose live-quote fetch gave no value, the current
\* value of the published trend is the value of the last sample of the view:
\* the newest live sample when the live buffer holds one, else the last
\* close of the history.
C28_CurrentIsLastOfView ==
  [][TickWithoutQuote /\ all_rates(hist_data', live_rates') # << >>
       => /\ trend'.at # 0
          /\ trend'.current = Last(all_rates(hist_data', live_rates'))]_vars

\* C29: the two sequences of the live buffer have the same length, and
\* position i of both belongs to one sample: the timestamp and the value
\* that were appended together.
C29_ParallelSequencesAligned ==
  /\ Len(live_times) = Len(live_rates)
  /\ \A i \in 1..Len(live_times) :
       /\ Held[i].t = live_times[i]
       /\ Held[i].rate = live_rates[i]

\* After a reset by a selection change the buffer has been filled again and
\* has evicted.
C29_Witness ==
  /\ switches = 1
  /\ Len(appended) > Capacity
  /\ Len(live_times) = Capacity
  /\ Len(live_rates) = Capacity

\* The shortest time a tick takes: the loop's sleep, the timer's interval.
TickLength == IF program = "app" THEN LOOP_SLEEP ELSE UPDATE_INTERVAL

\* C22: the tick loop does not stop on its own: whenever the clock stands
\* at a time from which one more tick fits into the horizon, a later tick
\* moves it on, whatever the fetches return and whatever the user selects.
C22_TickLoopNeverStops ==
  \A t \in StartTime..MaxTime :
    [](now = t /\ t + TickLength <= MaxTime => <>(now > t))

====
